---- MODULE Spec2Model ----
(***************************************************************************)
(* Radar-chart editor of src/App.tsx: the axis collection kept in React    *)
(* state, its four mutators, the chart-side derived values (data, avg) and  *)
(* the comment generator generateComment.                                   *)
(*                                                                          *)
(* Strings are sequences of string pieces (SANY reads ASCII only, so the    *)
(* Japanese literals of the source are written as ASCII glosses, one gloss  *)
(* per literal); '' is the empty sequence.  JavaScript numbers are integers *)
(* plus the value NaN; every arithmetic and comparison operator below       *)
(* follows the IEEE rules for NaN.                                          *)
(* showRadiusTicks only switches a chart widget on and off; no handler that  *)
(* touches axes, title or comment reads it, and it is left out.             *)
(***************************************************************************)
EXTENDS Integers, Sequences, FiniteSets, TLC

VARIABLES axes, title, comment, issued, ops, last

vars == <<axes, title, comment, issued, ops, last>>

-----------------------------------------------------------------------------
(* Bounds of the exploration *)

\* handler invocations explored per session, removals not counted
MaxOps == 2
\* longest argument of generateComment explored (SpecGen)
MaxLen == 4

-----------------------------------------------------------------------------
(* JavaScript numbers *)

\* the IEEE not-a-number, kept apart from every integer the model uses
NaN == -1000

isNaN(n) == n = NaN

\* Math.min / Math.max: NaN if either operand is NaN
MathMin(a, b) == IF isNaN(a) \/ isNaN(b) THEN NaN ELSE IF a < b THEN a ELSE b

MathMax(a, b) == IF isNaN(a) \/ isNaN(b) THEN NaN ELSE IF a > b THEN a ELSE b

\* a < b, a > b, a >= b: false as soon as an operand is NaN
Lt(a, b) == ~isNaN(a) /\ ~isNaN(b) /\ a < b

Gt(a, b) == ~isNaN(a) /\ ~isNaN(b) /\ a > b

Ge(a, b) == ~isNaN(a) /\ ~isNaN(b) /\ a >= b

\* a + b
Plus(a, b) == IF isNaN(a) \/ isNaN(b) THEN NaN ELSE a + b

\* Number(v) || 0 on a number: NaN and 0 are falsy
NumberOr0(v) == IF isNaN(v) \/ v = 0 THEN 0 ELSE v

\* String(n), as a template literal prints a number
NumStr(n) == IF isNaN(n) THEN "NaN" ELSE ToString(n)

\* sum / n for a sum >= 0 or NaN and a length n >= 0, as the exact fraction
\* num/den; NaN / n and 0 / 0 are NaN, written 0/0
Quot(sum, n) ==
    IF isNaN(sum) \/ n = 0 THEN [num |-> 0, den |-> 0] ELSE [num |-> sum, den |-> n]

\* q.toFixed(1): "NaN" for NaN; otherwise the nearest tenth, the larger one
\* on a tie
toFixed1(q) ==
    IF q.den = 0 THEN "NaN"
    ELSE LET t == (20 * q.num + q.den) \div (2 * q.den)
         IN  ToString(t \div 10) \o "." \o ToString(t % 10)

-----------------------------------------------------------------------------
(* Module level of App.tsx *)

\* a mutant of clamp: the lower bound forgotten
clampNoFloor(n) == MathMin(5, n)

\* const clamp = (n, min = 0, max = 5) => Math.max(min, Math.min(max, n))
clamp(n) == MathMax(0, MathMin(5, n))

\* uid(): seven base-36 digits of Math.random().  Identifiers are only ever
\* compared for equality, so the ids issued so far are numbered 1..n in
\* order of first appearance; a call returns one of them again (the random
\* digits repeat) or a new one, n + 1.
uid(n) == 1 .. (n + 1)

Range(s) == {s[i] : i \in DOMAIN s}

RECURSIVE uidRuns(_)
\* the results of k successive calls of uid()
uidRuns(k) ==
    IF k = 0 THEN {<<>>}
    ELSE UNION {{Append(s, i) : i \in uid(Cardinality(Range(s)))} : s \in uidRuns(k - 1)}

DefaultLabels == <<"Speed", "Accuracy", "Creativity", "Persistence", "Teamwork">>

DefaultValues == <<3, 4, 3, 4, 3>>

\* DEFAULT_AXES, one collection per outcome of its five uid() calls
DEFAULT_AXES ==
    {[i \in 1..5 |-> [id |-> ids[i], label |-> DefaultLabels[i], value |-> DefaultValues[i]]] :
        ids \in uidRuns(5)}

phraseForValue(v) ==
    IF Ge(v, 5) THEN "excellent"
    ELSE IF Ge(v, 4) THEN "good"
    ELSE IF Ge(v, 3) THEN "average"
    ELSE IF Ge(v, 2) THEN "room to improve"
    ELSE "needs strengthening"

-----------------------------------------------------------------------------
(* generateComment *)

RECURSIVE SumClamped(_)
\* axes.reduce((acc, a) => acc + clamp(a.value), 0)
SumClamped(axs) ==
    IF Len(axs) = 0 THEN 0
    ELSE Plus(SumClamped(SubSeq(axs, 1, Len(axs) - 1)), clamp(axs[Len(axs)].value))

RECURSIVE highestLast(_)
\* a mutant of highest: >= in place of >, so the last maximum wins
highestLast(axs) ==
    IF Len(axs) = 1 THEN 1
    ELSE LET p == highestLast(SubSeq(axs, 1, Len(axs) - 1))
         IN  IF Ge(axs[Len(axs)].value, axs[p].value) THEN Len(axs) ELSE p

RECURSIVE highest(_)
\* axes.reduce((p, c) => (c.value > p.value ? c : p)), as the index of the
\* axis object the reduction returns
highest(axs) ==
    IF Len(axs) = 1 THEN 1
    ELSE LET p == highest(SubSeq(axs, 1, Len(axs) - 1))
         IN  IF Gt(axs[Len(axs)].value, axs[p].value) THEN Len(axs) ELSE p

RECURSIVE lowest(_)
\* axes.reduce((p, c) => (c.value < p.value ? c : p))
lowest(axs) ==
    IF Len(axs) = 1 THEN 1
    ELSE LET p == lowest(SubSeq(axs, 1, Len(axs) - 1))
         IN  IF Lt(axs[Len(axs)].value, axs[p].value) THEN Len(axs) ELSE p

RECURSIVE Join(_, _)
\* lines.join(sep)
Join(lines, sep) ==
    IF Len(lines) = 0 THEN <<>>
    ELSE IF Len(lines) = 1 THEN lines[1]
    ELSE lines[1] \o <<sep>> \o Join(Tail(lines), sep)

\* one line of bullets
bullet(a) == <<"* ", a.label, ": ", NumStr(a.value), " (", phraseForValue(a.value), ")">>

\* axes.map(bullet).join('\n')
bullets(axs) == Join([i \in 1..Len(axs) |-> bullet(axs[i])], "\n")

RECURSIVE filterLow(_)
\* axes.filter((a) => a.value < 4)
filterLow(axs) ==
    IF Len(axs) = 0 THEN <<>>
    ELSE IF Lt(Head(axs).value, 4) THEN <<Head(axs)>> \o filterLow(Tail(axs))
    ELSE filterLow(Tail(axs))

\* .slice(0, 3)
slice03(s) == SubSeq(s, 1, IF Len(s) < 3 THEN Len(s) ELSE 3)

\* one line of suggestions
suggestion(a) == <<"- To raise [", a.label, "], add a weekly practice or review.">>

\* a mutant of suggestionLines: the slice(0, 3) left out
suggestionLinesAll(axs) ==
    LET low == filterLow(axs) IN [i \in 1..Len(low) |-> suggestion(low[i])]

\* axes.filter(...).slice(0, 3).map(suggestion)
suggestionLines(axs) ==
    LET low == slice03(filterLow(axs)) IN [i \in 1..Len(low) |-> suggestion(low[i])]

MaintainMessage == "[Next step]\nKeeping the current level is OK. Grow your strengths further."

generateComment(axs) ==
    IF Len(axs) = 0 THEN <<>>
    ELSE LET avg == toFixed1(Quot(SumClamped(axs), Len(axs)))
             hi == axs[highest(axs)]
             lo == axs[lowest(axs)]
             suggestions == Join(suggestionLines(axs), "\n")
         IN  <<"[Summary]\n",
               "The average score is ", avg, ". In particular [", hi.label,
               "] is a strength (", NumStr(hi.value), ").",
               " On the other hand [", lo.label, "] is a relative weakness (",
               NumStr(lo.value), ").\n\n",
               "[Items]\n">> \o bullets(axs) \o <<"\n\n">>
             \o (IF suggestions # <<>>
                 THEN <<"[Next step]\n">> \o suggestions \o <<"\n">>
                 ELSE <<MaintainMessage>>)

-----------------------------------------------------------------------------
(* App: derived values *)

\* useMemo data: one chart record per axis
data(axs) ==
    [i \in 1..Len(axs) |->
        [subject |-> IF axs[i].label = "" THEN "Untitled" ELSE axs[i].label,
         score |-> clamp(NumberOr0(axs[i].value)),
         fullMark |-> 5]]

RECURSIVE SumScores(_)
\* axes.reduce((acc, a) => acc + clamp(Number(a.value) || 0), 0)
SumScores(axs) ==
    IF Len(axs) = 0 THEN 0
    ELSE Plus(SumScores(SubSeq(axs, 1, Len(axs) - 1)), clamp(NumberOr0(axs[Len(axs)].value)))

\* useMemo avg
avg(axs) == Quot(SumScores(axs), Len(axs))

\* the text under the chart: avg.toFixed(1)
avgText(axs) == toFixed1(avg(axs))

-----------------------------------------------------------------------------
(* App: state updaters *)

addAxis(prev, id) == Append(prev, [id |-> id, label |-> "New item", value |-> 3])

RECURSIVE removeAxis(_, _)
\* prev.filter((a) => a.id !== id)
removeAxis(prev, id) ==
    IF Len(prev) = 0 THEN <<>>
    ELSE IF Head(prev).id # id THEN <<Head(prev)>> \o removeAxis(Tail(prev), id)
    ELSE removeAxis(Tail(prev), id)

updateLabel(prev, id, label) ==
    [i \in 1..Len(prev) |-> IF prev[i].id = id THEN [prev[i] EXCEPT !.label = label] ELSE prev[i]]

updateValue(prev, id, value) ==
    [i \in 1..Len(prev) |-> IF prev[i].id = id THEN [prev[i] EXCEPT !.value = clamp(value)] ELSE prev[i]]

-----------------------------------------------------------------------------
(* Inputs *)

\* numbers typed into a value field
NumInputs == {-3, 2, 99}

\* what updateValue's parameter can hold: a number or NaN
ValueInputs == NumInputs \cup {NaN}

LabelInputs == {""}

TitleInputs == {"Team review"}

CommentInputs == {<<"edited by hand">>}

\* ids a handler can be called with: every id issued so far
IdInputs == 1 .. issued

Op(name, id, value) == [op |-> name, id |-> id, value |-> value]

-----------------------------------------------------------------------------
(* The session *)

Init ==
    /\ axes \in DEFAULT_AXES
    /\ title = "My skill evaluation"
    /\ comment = <<>>
    /\ issued = Cardinality({axes[i].id : i \in DOMAIN axes})
    /\ ops = 0
    /\ last = Op("init", 0, 0)

\* a mutant of AddAxis: the comment regenerated on every change of the axes
AddAxisResync ==
    /\ ops < MaxOps
    /\ \E id \in uid(issued) :
        /\ axes' = addAxis(axes, id)
        /\ issued' = IF id > issued THEN id ELSE issued
        /\ last' = Op("add", id, 0)
    /\ comment' = generateComment(axes')
    /\ ops' = ops + 1
    /\ UNCHANGED title

AddAxis ==
    /\ ops < MaxOps
    /\ \E id \in uid(issued) :
        /\ axes' = addAxis(axes, id)
        /\ issued' = IF id > issued THEN id ELSE issued
        /\ last' = Op("add", id, 0)
    /\ ops' = ops + 1
    /\ UNCHANGED <<title, comment>>

\* removals only shrink the collection: they need no bound
RemoveAxis ==
    /\ \E id \in IdInputs :
        /\ axes' = removeAxis(axes, id)
        /\ last' = Op("remove", id, 0)
    /\ UNCHANGED <<title, comment, issued, ops>>

UpdateLabel ==
    /\ ops < MaxOps
    /\ \E id \in IdInputs, label \in LabelInputs :
        /\ axes' = updateLabel(axes, id, label)
        /\ last' = Op("updateLabel", id, 0)
    /\ ops' = ops + 1
    /\ UNCHANGED <<title, comment, issued>>

UpdateValue(inputs) ==
    /\ ops < MaxOps
    /\ \E id \in IdInputs, value \in inputs :
        /\ axes' = updateValue(axes, id, value)
        /\ last' = Op("updateValue", id, value)
    /\ ops' = ops + 1
    /\ UNCHANGED <<title, comment, issued>>

HandleGenerate ==
    /\ ops < MaxOps
    /\ comment' = generateComment(axes)
    /\ last' = Op("generate", 0, 0)
    /\ ops' = ops + 1
    /\ UNCHANGED <<axes, title, issued>>

SetComment ==
    /\ ops < MaxOps
    /\ \E text \in CommentInputs : comment' = text
    /\ last' = Op("setComment", 0, 0)
    /\ ops' = ops + 1
    /\ UNCHANGED <<axes, title, issued>>

SetTitle ==
    /\ ops < MaxOps
    /\ \E text \in TitleInputs : title' = text
    /\ last' = Op("setTitle", 0, 0)
    /\ ops' = ops + 1
    /\ UNCHANGED <<axes, comment, issued>>

Next ==
    \/ AddAxis
    \/ RemoveAxis
    \/ UpdateLabel
    \/ UpdateValue(ValueInputs)
    \/ HandleGenerate
    \/ SetComment
    \/ SetTitle

Spec == Init /\ [][Next]_vars

NextNum ==
    \/ AddAxis
    \/ RemoveAxis
    \/ UpdateLabel
    \/ UpdateValue(NumInputs)
    \/ HandleGenerate
    \/ SetComment
    \/ SetTitle

\* the session when every number passed to updateValue is a real number
SpecNum == Init /\ [][NextNum]_vars

-----------------------------------------------------------------------------
(* generateComment on its own: any argument of its parameter type *)

GenValues == {-3, 3, 4, 5, 7, NaN}

GenLabels == {"Speed", "Accuracy"}

\* the arguments explored: every sequence of at most MaxLen axes
GenAxes ==
    UNION {[1..n -> [id : {0}, label : GenLabels, value : GenValues]] : n \in 0..MaxLen}

InitGen ==
    /\ axes \in GenAxes
    /\ title = "My skill evaluation"
    /\ comment = <<>>
    /\ issued = 0
    /\ ops = 0
    /\ last = Op("init", 0, 0)

NextGen == HandleGenerate

SpecGen == InitGen /\ [][NextGen]_vars

-----------------------------------------------------------------------------
(* Positions in the text generateComment returns *)

AvgAt == 3
HighestLabelAt == 5
HighestValueAt == 7
LowestLabelAt == 10
LowestValueAt == 12
\* the value printed in the bullet line of axis i
BulletValueAt(i) == 8 * i + 10
\* where the suggestions block starts in the comment on n axes
NextStepAt(n) == 8 * n + 15

Generated == last.op = "generate" /\ Len(axes) > 0

Numeric(axs) == \A i \in DOMAIN axs : ~isNaN(axs[i].value)

-----------------------------------------------------------------------------
(* C1 *)

\* C1: after any sequence of add, remove, updateLabel and updateValue with
\* numeric arguments, every axis of the collection has a value in [0, 5].
C1_ValuesInRange == \A i \in DOMAIN axes : axes[i].value \in 0..5

\* an out-of-range number has just been passed to updateValue for an axis of
\* the collection, which now holds a bound of the range
C1_Witness ==
    /\ last.op = "updateValue"
    /\ last.value \in {-3, 99}
    /\ \E i \in DOMAIN axes : axes[i].id = last.id /\ axes[i].value \in {0, 5}

-----------------------------------------------------------------------------
(* C2 *)

\* C2: updateValue(id, v) on an axis of the collection stores 0 when v is
\* NaN, 0 when v = -3 and 5 when v = 99.
C2_UpdateValueCoerces ==
    last.op = "updateValue" =>
        \A i \in DOMAIN axes :
            axes[i].id = last.id =>
                /\ isNaN(last.value) => axes[i].value = 0
                /\ last.value = -3 => axes[i].value = 0
                /\ last.value = 99 => axes[i].value = 5

-----------------------------------------------------------------------------
(* C3 *)

Clamped(axs) == [i \in 1..Len(axs) |-> [axs[i] EXCEPT !.value = clamp(axs[i].value)]]

\* C3: generateComment re-clamps its argument: the text it returns on any
\* non-empty sequence of axes is the text it returns on the same axes with
\* every value clamped to [0, 5] (average, highest, lowest, bullet values and
\* tiers, suggestion filter all read the clamped value).
C3_GenerateReclamps == Generated => comment = generateComment(Clamped(axes))

-----------------------------------------------------------------------------
(* C4 *)

MaxValue(axs) == CHOOSE m \in Range([i \in DOMAIN axs |-> axs[i].value]) :
                    \A i \in DOMAIN axs : axs[i].value <= m

MinValue(axs) == CHOOSE m \in Range([i \in DOMAIN axs |-> axs[i].value]) :
                    \A i \in DOMAIN axs : axs[i].value >= m

\* the smallest index holding value v
FirstWith(axs, v) == CHOOSE i \in DOMAIN axs :
                        axs[i].value = v /\ \A j \in 1..(i - 1) : axs[j].value # v

\* C4: on every non-empty sequence of axes with numeric values, the highest
\* axis named in the summary is the one at the smallest index holding the
\* maximum value, the lowest the one at the smallest index holding the
\* minimum; when all values are equal both are the first axis.
C4_FirstExtremeWins ==
    (Generated /\ Numeric(axes)) =>
        LET h == FirstWith(axes, MaxValue(axes))
            l == FirstWith(axes, MinValue(axes))
        IN  /\ highest(axes) = h
            /\ lowest(axes) = l
            /\ comment[HighestLabelAt] = axes[h].label
            /\ comment[HighestValueAt] = NumStr(axes[h].value)
            /\ comment[LowestLabelAt] = axes[l].label
            /\ comment[LowestValueAt] = NumStr(axes[l].value)
            /\ (MaxValue(axes) = MinValue(axes) => highest(axes) = 1 /\ lowest(axes) = 1)

\* a comment generated from axes whose maximum is held by several axes, the
\* first of them not the first axis, and whose minimum is held by several too
C4_Witness ==
    /\ Generated /\ Numeric(axes)
    /\ FirstWith(axes, MaxValue(axes)) > 1
    /\ Cardinality({i \in DOMAIN axes : axes[i].value = MaxValue(axes)}) > 1
    /\ Cardinality({i \in DOMAIN axes : axes[i].value = MinValue(axes)}) > 1

-----------------------------------------------------------------------------
(* C5 *)

\* the indices of the axes whose value is strictly less than 4
LowIndices(axs) == {i \in DOMAIN axs : Lt(axs[i].value, 4)}

RECURSIVE Ascending(_)
\* the elements of a set of indices, smallest first
Ascending(S) ==
    IF S = {} THEN <<>>
    ELSE LET m == CHOOSE x \in S : \A y \in S : x <= y
         IN  <<m>> \o Ascending(S \ {m})

\* the suggestions block the claim describes
ExpectedNextStep(axs) ==
    LET low == Ascending(LowIndices(axs))
        k == Len(low)
        shown == IF k < 3 THEN k ELSE 3
    IN  IF k = 0 THEN <<MaintainMessage>>
        ELSE <<"[Next step]\n">>
             \o Join([j \in 1..shown |-> suggestion(axs[low[j]])], "\n")
             \o <<"\n">>

\* C5: the suggestions block holds one suggestion line for each of the first
\* min(3, k) of the k axes whose value is below 4, in collection order, and
\* nothing else; the maintain message appears if and only if k = 0.
C5_SuggestionsBlock ==
    Generated =>
        /\ SubSeq(comment, NextStepAt(Len(axes)), Len(comment)) = ExpectedNextStep(axes)
        /\ (MaintainMessage \in Range(comment)) <=> (LowIndices(axes) = {})

\* a comment generated from axes of which more than three have a value
\* below 4
C5_Witness == Generated /\ Cardinality(LowIndices(axes)) > 3

-----------------------------------------------------------------------------
(* C6 *)

UniqueIds == \A i, j \in DOMAIN axes : axes[i].id = axes[j].id => i = j

\* C6: no two axes of the collection ever share an id, and the id add gives
\* to the axis it appends is none of the ids issued before.
C6_IdsUniqueNeverReused ==
    /\ []UniqueIds
    /\ [][Len(axes') = Len(axes) + 1 => axes'[Len(axes')].id \notin 1..issued]_vars

-----------------------------------------------------------------------------
(* C7 *)

\* C7: right after add() appended an axis with id newId to a collection C,
\* remove(newId) yields C again (the collection without its last axis).
C7_AddThenRemoveRestores ==
    last.op = "add" => removeAxis(axes, last.id) = SubSeq(axes, 1, Len(axes) - 1)

-----------------------------------------------------------------------------
(* C8 *)

\* C8: in every reachable state with at least one axis, the score the chart
\* gets for each axis is the value generateComment prints in that axis's
\* bullet line, and the average under the chart is the average in the
\* summary.
C8_ChartAndCommentAgree ==
    Len(axes) > 0 =>
        LET text == generateComment(axes)
        IN  /\ \A i \in DOMAIN axes : NumStr(data(axes)[i].score) = text[BulletValueAt(i)]
            /\ avgText(axes) = text[AvgAt]

-----------------------------------------------------------------------------
(* C9 *)

\* C9: add, remove, updateLabel, updateValue and a title edit leave the
\* comment as it was; an edit of the comment or of the title leaves the axes
\* as they were; a generate sets the comment to generateComment of the axes
\* at that moment.
C9_CommentDecoupled ==
    [][/\ last'.op \in {"add", "remove", "updateLabel", "updateValue", "setTitle"}
            => comment' = comment
       /\ last'.op \in {"setComment", "setTitle"} => axes' = axes
       /\ last'.op = "generate" => comment' = generateComment(axes')]_vars

\* a generated comment that the axes have since moved away from
C9_Witness ==
    /\ last.op \in {"add", "remove", "updateLabel", "updateValue"}
    /\ comment # <<>>
    /\ comment[1] = "[Summary]\n"
    /\ comment # generateComment(axes)

-----------------------------------------------------------------------------
(* C10 *)

\* C10: in every reachable state the average under the chart is a number in
\* [0, 5] (never NaN, never the result of a division by zero).
C10_AverageWellDefined ==
    LET q == avg(axes)
    IN  q.den # 0 /\ 0 <= q.num /\ q.num <= 5 * q.den

====
